---- MODULE Spec2Model ----
(***************************************************************************)
(* A model of src/services/jsonLinks.ts of vscode-json-languageservice:    *)
(* JSON Pointer resolution against a document tree (findTargetNode,        *)
(* findNode, parseJSONPointer, unescape) and the passes that turn "$ref"   *)
(* properties into links (findLinks, findLinks2, findExternalReferences).  *)
(*                                                                         *)
(* Strings are sequences of one-character strings, so that split,          *)
(* replace, substring and the target's formatting are computed character   *)
(* by character as the code computes them.                                 *)
(***************************************************************************)
EXTENDS Integers, Sequences, FiniteSets, TLC

VARIABLES document, doc, op, args, ret, fetches, links, delivered

vars == <<document, doc, op, args, ret, fetches, links, delivered>>

(***************************************************************************)
(* Values of the host language.                                            *)
(***************************************************************************)

\* null / undefined: the falsy "no node", "no tokens", "no value".
Null == [type |-> "NULL"]

\* The text `${undefined}` formats to inside a template literal.
UndefinedText == <<"u", "n", "d", "e", "f", "i", "n", "e", "d">>

DigitChars == <<"0", "1", "2", "3", "4", "5", "6", "7", "8", "9">>

IsDigit(c) == \E i \in 1..10 : DigitChars[i] = c

DigitValue(c) == (CHOOSE i \in 1..10 : DigitChars[i] = c) - 1

\* Number -> string, as a template literal formats a non-negative integer.
RECURSIVE ToDecimal(_)
ToDecimal(n) ==
    IF n < 10 THEN <<DigitChars[n + 1]>>
    ELSE ToDecimal(n \div 10) \o <<DigitChars[(n % 10) + 1]>>

\* Number.parseInt of a string of decimal digits.
RECURSIVE parseIntAcc(_, _)
parseIntAcc(str, acc) ==
    IF str = <<>> THEN acc
    ELSE parseIntAcc(Tail(str), acc * 10 + DigitValue(Head(str)))

parseInt(str) == parseIntAcc(str, 0)

\* String.prototype.split with a one-character separator.
RECURSIVE split(_, _)
split(str, sep) ==
    IF \E i \in 1..Len(str) : str[i] = sep
    THEN LET i == CHOOSE k \in 1..Len(str) :
                    str[k] = sep /\ \A j \in 1..(k - 1) : str[j] # sep
         IN  <<SubSeq(str, 1, i - 1)>> \o split(SubSeq(str, i + 1, Len(str)), sep)
    ELSE <<str>>

\* String.prototype.replace with a global literal pattern: one scan from the
\* left over non-overlapping matches; the replacement is not scanned again.
RECURSIVE replace(_, _, _)
replace(str, pat, rep) ==
    IF Len(str) < Len(pat) THEN str
    ELSE IF SubSeq(str, 1, Len(pat)) = pat
         THEN rep \o replace(SubSeq(str, Len(pat) + 1, Len(str)), pat, rep)
         ELSE <<Head(str)>> \o replace(Tail(str), pat, rep)

(***************************************************************************)
(* JSON values, their text and their syntax tree (the parser's output).    *)
(***************************************************************************)

NoValue == [t |-> "none"]
VNum == [t |-> "number"]
VStr(s) == [t |-> "string", v |-> s]
VObj(ps) == [t |-> "object", props |-> ps]
VArr(is) == [t |-> "array", items |-> is]
P(k, v) == [k |-> k, v |-> v]

Quote == "\""
Newline == "\n"

\* The text of a value: properties are separated by a comma and a line
\* break, array items by a comma; a property without value ends at its colon.
RECURSIVE Text(_), PropsText(_), ItemsText(_)
Text(v) ==
    CASE v.t = "number" -> <<"5">>
      [] v.t = "string" -> <<Quote>> \o v.v \o <<Quote>>
      [] v.t = "object" -> <<"{">> \o PropsText(v.props) \o <<"}">>
      [] v.t = "array"  -> <<"[">> \o ItemsText(v.items) \o <<"]">>
      [] OTHER -> <<>>

PropsText(ps) ==
    IF ps = <<>> THEN <<>>
    ELSE <<Quote>> \o Head(ps).k \o <<Quote, ":">> \o Text(Head(ps).v)
         \o (IF Len(ps) > 1 THEN <<",", Newline>> \o PropsText(Tail(ps)) ELSE <<>>)

ItemsText(is) ==
    IF is = <<>> THEN <<>>
    ELSE Text(Head(is))
         \o (IF Len(is) > 1 THEN <<",">> \o ItemsText(Tail(is)) ELSE <<>>)

\* The syntax tree of a value whose text starts at offset off.
RECURSIVE ASTNode(_, _), PropertyASTNodes(_, _), ItemASTNodes(_, _)
ASTNode(v, off) ==
    CASE v.t = "number" -> [type |-> "number", offset |-> off, length |-> 1]
      [] v.t = "string" ->
            [type |-> "string", offset |-> off, length |-> Len(v.v) + 2, value |-> v.v]
      [] v.t = "object" ->
            [type |-> "object", offset |-> off, length |-> Len(Text(v)),
             properties |-> PropertyASTNodes(v.props, off + 1)]
      [] v.t = "array" ->
            [type |-> "array", offset |-> off, length |-> Len(Text(v)),
             items |-> ItemASTNodes(v.items, off + 1)]

PropertyASTNodes(ps, off) ==
    IF ps = <<>> THEN <<>>
    ELSE LET p == Head(ps)
             klen == Len(p.k) + 2
             n == [type |-> "property", offset |-> off,
                   length |-> klen + 1 + Len(Text(p.v)),
                   keyNode |-> [type |-> "string", offset |-> off,
                                length |-> klen, value |-> p.k],
                   valueNode |-> IF p.v = NoValue THEN Null
                                 ELSE ASTNode(p.v, off + klen + 1)]
         IN  <<n>> \o PropertyASTNodes(Tail(ps), off + n.length + 2)

ItemASTNodes(is, off) ==
    IF is = <<>> THEN <<>>
    ELSE LET n == ASTNode(Head(is), off)
         IN  <<n>> \o ItemASTNodes(Tail(is), off + n.length + 1)

\* A text document and the tree parsed from it.
TextDocument(uri, v) == [uri |-> uri, text |-> Text(v)]
JSONDocument(v) == [root |-> IF v = NoValue THEN Null ELSE ASTNode(v, 0)]

\* TextDocument.positionAt: the offset is clamped to the text; the line is
\* the number of line breaks before it, the character the distance to the
\* start of that line. Both are 0-based.
positionAt(d, offset) ==
    LET o == IF offset < 0 THEN 0
             ELSE IF offset > Len(d.text) THEN Len(d.text) ELSE offset
        breaks == {i \in 1..o : d.text[i] = Newline}
        lineStart == IF breaks = {} THEN 0
                     ELSE CHOOSE i \in breaks : \A j \in breaks : j <= i
    IN  [line |-> Cardinality(breaks), character |-> o - lineStart]

\* JSONDocument.visit with a visitor that always continues: the nodes in
\* pre-order; a property's children are its key and, when present, its value.
RECURSIVE visit(_), visitAll(_)
visit(node) ==
    IF node = Null THEN <<>>
    ELSE <<node>> \o
         (CASE node.type = "object" -> visitAll(node.properties)
            [] node.type = "array" -> visitAll(node.items)
            [] node.type = "property" -> visit(node.keyNode) \o visit(node.valueNode)
            [] OTHER -> <<>>)

visitAll(nodes) ==
    IF nodes = <<>> THEN <<>> ELSE visit(Head(nodes)) \o visitAll(Tail(nodes))

(***************************************************************************)
(* jsonLinks.ts                                                            *)
(***************************************************************************)

RefKey == <<"$", "r", "e", "f">>

unescape_swapped(str) == replace(replace(str, <<"~", "0">>, <<"~">>), <<"~", "1">>, <<"/">>)

unescape(str) == replace(replace(str, <<"~", "1">>, <<"/">>), <<"~", "0">>, <<"~">>)

map_unescape(tokens) == [i \in 1..Len(tokens) |-> unescape(tokens[i])]

\* null, or [tokens |-> the decoded tokens].
parseJSONPointer(path) ==
    IF path = <<"#">> THEN [tokens |-> <<>>]
    ELSE IF Len(path) < 2 \/ path[1] # "#" \/ path[2] # "/" THEN Null
    ELSE [tokens |-> map_unescape(split(SubSeq(path, 3, Len(path)), "/"))]

matchesIndex_digits(token) ==
    Len(token) >= 1 /\ \A i \in 1..Len(token) : IsDigit(token[i])

\* token.match(/^(0|[1-9][0-9]*)$/)
matchesIndex(token) ==
    \/ token = <<"0">>
    \/ /\ Len(token) >= 1
       /\ IsDigit(token[1]) /\ token[1] # "0"
       /\ \A i \in 2..Len(token) : IsDigit(token[i])

\* node.properties.find(p => p.keyNode.value === token)
findProperty_last(properties, token) ==
    IF \E i \in 1..Len(properties) : properties[i].keyNode.value = token
    THEN properties[CHOOSE i \in 1..Len(properties) :
                        /\ properties[i].keyNode.value = token
                        /\ \A j \in (i + 1)..Len(properties) :
                              properties[j].keyNode.value # token]
    ELSE Null

findProperty(properties, token) ==
    IF \E i \in 1..Len(properties) : properties[i].keyNode.value = token
    THEN properties[CHOOSE i \in 1..Len(properties) :
                        /\ properties[i].keyNode.value = token
                        /\ \A j \in 1..(i - 1) : properties[j].keyNode.value # token]
    ELSE Null

RECURSIVE findNode(_, _)
findNode(pointer, node) ==
    IF node = Null THEN Null
    ELSE IF Len(pointer) = 0 THEN node
    ELSE LET token == Head(pointer)
             rest == Tail(pointer)
         IN  IF node.type = "object"
             THEN LET propertyNode == findProperty(node.properties, token)
                  IN  IF propertyNode = Null THEN Null
                      ELSE findNode(rest, propertyNode.valueNode)
             ELSE IF node.type = "array" /\ matchesIndex(token)
             THEN LET index == parseInt(token)
                  IN  IF index + 1 > Len(node.items) THEN Null
                      ELSE findNode(rest, node.items[index + 1])
             ELSE Null

findTargetNode(d, path) ==
    LET tokens == parseJSONPointer(path)
    IN  IF tokens = Null THEN Null ELSE findNode(tokens.tokens, d.root)

createRange_withQuotes(d, node) ==
    [start |-> positionAt(d, node.offset),
     end |-> positionAt(d, node.offset + node.length)]

createRange(d, node) ==
    [start |-> positionAt(d, node.offset + 1),
     end |-> positionAt(d, node.offset + node.length - 1)]

target_zeroBased(d, targetNode) ==
    LET targetPos == positionAt(d, targetNode.offset)
    IN  d.uri \o <<"#">> \o ToDecimal(targetPos.line)
              \o <<",">> \o ToDecimal(targetPos.character)

\* `${uri}#${line + 1},${character + 1}`
target(d, targetNode) ==
    LET targetPos == positionAt(d, targetNode.offset)
    IN  d.uri \o <<"#">> \o ToDecimal(targetPos.line + 1)
              \o <<",">> \o ToDecimal(targetPos.character + 1)

\* node.type === "property" && node.keyNode.value === "$ref"
\*   && node.valueNode?.type === 'string'
isRefProperty(node) ==
    /\ node.type = "property"
    /\ node.keyNode.value = RefKey
    /\ node.valueNode # Null
    /\ node.valueNode.type = "string"

\* The visitor of findLinks, findLinks2: the links one visited node adds.
visitLink(d, jd, node) ==
    IF isRefProperty(node)
    THEN LET path == node.valueNode.value
             targetNode == findTargetNode(jd, path)
         IN  IF targetNode # Null
             THEN <<[target |-> target(d, targetNode),
                     range |-> createRange(d, node.valueNode)]>>
             ELSE <<>>
    ELSE <<>>

RECURSIVE visitLinks(_, _, _)
visitLinks(d, jd, nodes) ==
    IF nodes = <<>> THEN <<>>
    ELSE visitLink(d, jd, Head(nodes)) \o visitLinks(d, jd, Tail(nodes))

findLinks(d, jd) == visitLinks(d, jd, visit(jd.root))

\* `#${value.split('#')[1]}`
fragmentPath(value) ==
    LET parts == split(value, "#")
    IN  <<"#">> \o (IF Len(parts) >= 2 THEN parts[2] ELSE UndefinedText)

\* The body of findLinks2's loop: the links one external reference adds.
externalLink(d, ref) ==
    IF isRefProperty(ref.sourceNode)
    THEN LET path == fragmentPath(ref.sourceNode.valueNode.value)
             targetNode == findTargetNode(ref.jsonDocument, path)
         IN  IF targetNode # Null
             THEN <<[target |-> target(ref.textDocument, targetNode),
                     range |-> createRange(d, ref.sourceNode.valueNode)]>>
             ELSE <<>>
    ELSE <<>>

RECURSIVE externalLinks(_, _)
externalLinks(d, refs) ==
    IF refs = <<>> THEN <<>>
    ELSE externalLink(d, Head(refs)) \o externalLinks(d, Tail(refs))

findLinks2_externalFirst(d, jd, externalReferences) ==
    externalLinks(d, externalReferences) \o visitLinks(d, jd, visit(jd.root))

findLinks2(d, jd, externalReferences) ==
    visitLinks(d, jd, visit(jd.root)) \o externalLinks(d, externalReferences)

\* DocumentContext.resolveReference(ref, baseUrl): a context that resolves a
\* path against the base, one that answers with the empty string and one
\* that answers with no value. A string answer is [chars |-> its characters].
resolveReference(documentContext, ref, baseUrl) ==
    CASE documentContext = "resolving" -> [chars |-> baseUrl \o <<"/">> \o ref]
      [] documentContext = "empty" -> [chars |-> <<>>]
      [] OTHER -> Null

visitReference_unchecked(d, documentContext, node) ==
    IF isRefProperty(node)
    THEN <<[sourceNode |-> node,
            uri |-> resolveReference(documentContext,
                                     split(node.valueNode.value, "#")[1], d.uri)]>>
    ELSE <<>>

\* The visitor of findExternalReferences: the records one visited node adds.
visitReference(d, documentContext, node) ==
    IF isRefProperty(node)
    THEN LET path == node.valueNode.value
             externalFile == split(path, "#")[1]
         IN  IF externalFile # <<>>
             THEN <<[sourceNode |-> node,
                     uri |-> resolveReference(documentContext, externalFile, d.uri)]>>
             ELSE <<>>
    ELSE <<>>

RECURSIVE visitReferences(_, _, _)
visitReferences(d, documentContext, nodes) ==
    IF nodes = <<>> THEN <<>>
    ELSE visitReference(d, documentContext, Head(nodes))
         \o visitReferences(d, documentContext, Tail(nodes))

findExternalReferences(d, jd, documentContext) ==
    visitReferences(d, documentContext, visit(jd.root))

(***************************************************************************)
(* Bounded inputs.                                                         *)
(***************************************************************************)

\* All strings over an alphabet of at most n characters.
Strings(alphabet, n) == UNION {[1..k -> alphabet] : k \in 0..n}

\* All sequences over a set of at most n elements.
SeqsUpTo(S, n) == UNION {[1..k -> S] : k \in 0..n}

\* The longest sequence of external references handed to findLinks2.
MaxExtRefs == 2

DocUri == <<"d">>

\* The values of the "$ref" properties: pointers into the document that
\* resolve ("#", "#/a") or not ("#/b"), references into another file with a
\* fragment ("o#/a", "o#", "o#/a#"), without one ("o"), and the empty string.
RefValues ==
    { <<"#">>, <<"#", "/", "a">>, <<"#", "/", "b">>,
      <<"o", "#", "/", "a">>, <<"o">>, <<"o", "#">>,
      <<"o", "#", "/", "a", "#">>, <<>> }

RefProps ==
    {P(RefKey, VStr(s)) : s \in RefValues}
        \cup {P(RefKey, VNum), P(RefKey, NoValue)}
        \cup {P(<<"a">>, VNum), P(<<"a">>, VStr(<<"#", "/", "a">>))}
        \cup {P(<<"a">>, VObj(<<P(RefKey, VStr(s))>>)) : s \in RefValues}
        \cup {P(<<"a">>, VArr(<<VObj(<<P(RefKey, VStr(<<"#">>))>>)>>))}

\* The documents of the link passes: no root, or an object of up to two
\* properties, each on its own line.
LinkValues ==
    {NoValue} \cup {VObj(<<>>)}
        \cup {VObj(<<p>>) : p \in RefProps}
        \cup {VObj(<<p, q>>) : p \in RefProps, q \in RefProps}

\* The documents other files parse to.
ExternalDocument(uri, v) ==
    [textDocument |-> TextDocument(uri, v), jsonDocument |-> JSONDocument(v)]

ExternalDocuments ==
    { ExternalDocument(<<"o">>, VObj(<<P(<<"b">>, VNum), P(<<"a">>, VNum)>>)),
      ExternalDocument(<<"p">>, VArr(<<VNum>>)) }

Range(s) == {s[i] : i \in 1..Len(s)}

\* The external references a caller can hand in: a property of the
\* document paired with an external document.
JsonExternalReferences(jd) ==
    { [sourceNode |-> n, textDocument |-> e.textDocument, jsonDocument |-> e.jsonDocument] :
        n \in {m \in Range(visit(jd.root)) : m.type = "property"},
        e \in ExternalDocuments }

DocumentContexts == {"resolving", "empty", "absent"}

(***************************************************************************)
(* The link passes: a document, and the calls made on it, one at a time.   *)
(* op is the call whose result the caller holds ("none" between calls),     *)
(* args its arguments besides the document, ret its result.                *)
(***************************************************************************)

Idle == /\ op = "none"
        /\ args = Null
        /\ ret = Null
        /\ fetches = <<>>
        /\ links = <<>>
        /\ delivered = FALSE

Init ==
    /\ \E v \in LinkValues :
          /\ document = TextDocument(DocUri, v)
          /\ doc = JSONDocument(v)
    /\ Idle

FindLinks ==
    /\ op = "none"
    /\ op' = "findLinks"
    /\ args' = Null
    /\ ret' = findLinks(document, doc)
    /\ UNCHANGED <<document, doc, fetches, links, delivered>>

FindLinks2 ==
    \E externalReferences \in SeqsUpTo(JsonExternalReferences(doc), MaxExtRefs) :
        /\ op = "none"
        /\ op' = "findLinks2"
        /\ args' = [externalReferences |-> externalReferences]
        /\ ret' = findLinks2(document, doc, externalReferences)
        /\ UNCHANGED <<document, doc, fetches, links, delivered>>

FindExternalReferences ==
    \E documentContext \in DocumentContexts :
        /\ op = "none"
        /\ op' = "findExternalReferences"
        /\ args' = [documentContext |-> documentContext]
        /\ ret' = findExternalReferences(document, doc, documentContext)
        /\ UNCHANGED <<document, doc, fetches, links, delivered>>

\* The caller takes the result; nothing of the call persists.
Return ==
    /\ op \in {"findLinks", "findLinks2", "findExternalReferences",
               "findTargetNode", "unescape"}
    /\ op' = "none"
    /\ args' = Null
    /\ ret' = Null
    /\ UNCHANGED <<document, doc, fetches, links, delivered>>

Next == FindLinks \/ FindLinks2 \/ FindExternalReferences \/ Return

Spec == Init /\ [][Next]_vars

(***************************************************************************)
(* What the properties below are stated in: JSON Pointer resolution as a   *)
(* walk with a cursor, the parts of a reference, the place of a node.      *)
(***************************************************************************)

\* One pass from the left that decodes each escape once.
RECURSIVE DecodeOnce(_)
DecodeOnce(s) ==
    IF s = <<>> THEN <<>>
    ELSE IF Len(s) >= 2 /\ s[1] = "~" /\ s[2] = "1"
         THEN <<"/">> \o DecodeOnce(SubSeq(s, 3, Len(s)))
    ELSE IF Len(s) >= 2 /\ s[1] = "~" /\ s[2] = "0"
         THEN <<"~">> \o DecodeOnce(SubSeq(s, 3, Len(s)))
    ELSE <<s[1]>> \o DecodeOnce(Tail(s))

HasPointerPrefix(path) == Len(path) >= 2 /\ path[1] = "#" /\ path[2] = "/"

\* The raw tokens of "#/t1/t2/...": what lies between consecutive slashes.
Slashes(path) == {i \in 2..Len(path) : path[i] = "/"}

NthSlash(path, k) ==
    IF k > Cardinality(Slashes(path)) THEN Len(path) + 1
    ELSE CHOOSE i \in Slashes(path) : Cardinality({j \in Slashes(path) : j < i}) = k - 1

RawTokens(path) ==
    [k \in 1..Cardinality(Slashes(path)) |->
        SubSeq(path, NthSlash(path, k) + 1, NthSlash(path, k + 1) - 1)]

PointerTokens(path) ==
    [k \in 1..Cardinality(Slashes(path)) |-> DecodeOnce(RawTokens(path)[k])]

\* One step of the walk: from a node along a token, or Null.
Step(node, token) ==
    IF node.type = "object"
    THEN LET hit == {i \in 1..Len(node.properties) :
                        node.properties[i].keyNode.value = token}
         IN  IF hit = {} THEN Null
             ELSE node.properties[CHOOSE i \in hit : \A j \in hit : i <= j].valueNode
    ELSE IF node.type = "array"
    THEN LET hit == {n \in 0..(Len(node.items) - 1) : ToDecimal(n) = token}
         IN  IF hit = {} THEN Null ELSE node.items[(CHOOSE n \in hit : TRUE) + 1]
    ELSE Null

\* The node reached from node by the tokens from the cursor on.
RECURSIVE WalkFrom(_, _, _)
WalkFrom(tokens, cursor, node) ==
    IF node = Null THEN Null
    ELSE IF cursor > Len(tokens) THEN node
    ELSE WalkFrom(tokens, cursor + 1, Step(node, tokens[cursor]))

Resolve(root, path) ==
    IF path = <<"#">> THEN root
    ELSE IF HasPointerPrefix(path) THEN WalkFrom(PointerTokens(path), 1, root)
    ELSE Null

FirstHash(value) ==
    IF \E i \in 1..Len(value) : value[i] = "#"
    THEN CHOOSE i \in 1..Len(value) : value[i] = "#" /\ \A j \in 1..(i - 1) : value[j] # "#"
    ELSE Len(value) + 1

\* The substring before the first '#'.
FilePart(value) == SubSeq(value, 1, FirstHash(value) - 1)

\* The substring from the first '#' on, or "#" when there is none.
FragmentPart(value) ==
    IF FirstHash(value) > Len(value) THEN <<"#">>
    ELSE SubSeq(value, FirstHash(value), Len(value))

\* "<uri>#<line+1>,<character+1>" of a node of the document d.
TargetOf(d, node) ==
    LET before == {i \in 1..node.offset : d.text[i] = Newline}
        col == IF before = {} THEN node.offset
               ELSE node.offset - (CHOOSE i \in before : \A j \in before : j <= i)
    IN  d.uri \o <<"#">> \o ToDecimal(Cardinality(before) + 1)
              \o <<",">> \o ToDecimal(col + 1)

\* The range of a string node's interior, between its quote characters.
InteriorOf(d, v) ==
    [start |-> positionAt(d, v.offset + 1),
     end |-> positionAt(d, v.offset + v.length - 1)]

\* The text between the quotes of a string node is its value.
QuotedIn(d, v) ==
    /\ d.text[v.offset + 1] = Quote
    /\ d.text[v.offset + v.length] = Quote
    /\ SubSeq(d.text, v.offset + 2, v.offset + v.length - 1) = v.value

IsStringRef(node) ==
    /\ node.type = "property"
    /\ node.keyNode.value = RefKey
    /\ node.valueNode # Null
    /\ node.valueNode.type = "string"

Nodes(jd) == Range(visit(jd.root))

\* The "$ref" properties of the document whose pointer resolves in it.
LocalMatches == {n \in Nodes(doc) : IsStringRef(n) /\ Resolve(doc.root, n.valueNode.value) # Null}

LocalLinkOf(n) ==
    [target |-> TargetOf(document, Resolve(doc.root, n.valueNode.value)),
     range |-> InteriorOf(document, n.valueNode)]

IsLocalTarget(t) ==
    /\ Len(t) > Len(document.uri)
    /\ SubSeq(t, 1, Len(document.uri) + 1) = document.uri \o <<"#">>

Before(p, q) == p.line < q.line \/ (p.line = q.line /\ p.character < q.character)

(***************************************************************************)
(* Properties of the link passes (specification Spec).                     *)
(***************************************************************************)

\* C1: findLinks returns exactly one link per "$ref" property with a string
\* value that resolves as a JSON Pointer in the same tree, with the target
\* "<document uri>#<line+1>,<character+1>" of the resolved node's start,
\* and no link for any other node.
C1_FindLinksExactlyTheLocalMatches ==
    op = "findLinks" =>
        /\ Len(ret) = Cardinality(LocalMatches)
        /\ \A n \in LocalMatches :
              Cardinality({i \in 1..Len(ret) : ret[i] = LocalLinkOf(n)}) = 1
        /\ \A i \in 1..Len(ret) : \E n \in LocalMatches : ret[i] = LocalLinkOf(n)

\* A document with a "$ref" that resolves to a node of the second line and
\* a "$ref" that resolves to nothing: one link comes back.
C1_Witness ==
    /\ op = "findLinks"
    /\ Len(ret) = 1
    /\ \E n \in LocalMatches : Resolve(doc.root, n.valueNode.value).offset > 0
                               /\ positionAt(document, Resolve(doc.root, n.valueNode.value).offset).line = 1
    /\ \E n \in Nodes(doc) : IsStringRef(n) /\ n.valueNode.value = <<"#", "/", "b">>

\* The links findLinks2 returns after those of the document's own matches.
ExternalPart(ls) == SelectSeq(ls, LAMBDA l : ~IsLocalTarget(l.target))

\* The links the external references should give, in their order, when the
\* fragment is the value from '#' on, or "#".
RECURSIVE FragmentLinks(_)
FragmentLinks(refs) ==
    IF refs = <<>> THEN <<>>
    ELSE LET ref == Head(refs)
             found == IF IsStringRef(ref.sourceNode)
                      THEN Resolve(ref.jsonDocument.root,
                                   FragmentPart(ref.sourceNode.valueNode.value))
                      ELSE Null
         IN  (IF found # Null
              THEN <<[target |-> TargetOf(ref.textDocument, found),
                      range |-> InteriorOf(document, ref.sourceNode.valueNode)]>>
              ELSE <<>>) \o FragmentLinks(Tail(refs))

\* C2: in findLinks2 each external reference is resolved with the fragment
\* "the value from '#' on, or # when it has none" against its own tree, and
\* gives a link exactly when that fragment resolves.
C2_ExternalFragmentResolved ==
    op = "findLinks2" => ExternalPart(ret) = FragmentLinks(args.externalReferences)

\* C3: no record of findExternalReferences has an empty or absent uri.
C3_NoRecordWithoutUri ==
    op = "findExternalReferences" =>
        \A i \in 1..Len(ret) : ret[i].uri # Null /\ ret[i].uri.chars # <<>>

\* The property nodes a link of the call can come from.
SourceNodes ==
    {n \in Nodes(doc) : IsStringRef(n)}
        \cup (IF op = "findLinks2"
              THEN {r.sourceNode : r \in {x \in Range(args.externalReferences) :
                                              IsStringRef(x.sourceNode)}}
              ELSE {})

\* C4: every link of findLinks and findLinks2 has the range, in the current
\* document, from positionAt(v.offset + 1) to positionAt(v.offset + v.length
\* - 1) of the string value v of its "$ref" property: the value between its
\* quotes.
C4_RangeIsValueInterior ==
    op \in {"findLinks", "findLinks2"} =>
        \A i \in 1..Len(ret) :
            \E n \in SourceNodes :
                /\ ret[i].range = InteriorOf(document, n.valueNode)
                /\ QuotedIn(document, n.valueNode)
                /\ ret[i].range.end.line = ret[i].range.start.line
                /\ ret[i].range.end.character - ret[i].range.start.character
                      = Len(n.valueNode.value)

\* findLinks2 has returned a link of the document and a link of an external
\* reference, both with a range off the first line.
C4_Witness ==
    /\ op = "findLinks2"
    /\ \E i, j \in 1..Len(ret) :
          /\ IsLocalTarget(ret[i].target) /\ ~IsLocalTarget(ret[j].target)
          /\ ret[i].range.start.line = 1
          /\ ret[j].range.start.line = 1
          /\ ret[j].range.end.character > ret[j].range.start.character

\* A link comes from an external reference: its range is that of the
\* reference's value, its target lies in the reference's document.
FromReference(l, ref) ==
    /\ IsStringRef(ref.sourceNode)
    /\ l.range = InteriorOf(document, ref.sourceNode.valueNode)
    /\ Len(l.target) > Len(ref.textDocument.uri)
    /\ SubSeq(l.target, 1, Len(ref.textDocument.uri) + 1) = ref.textDocument.uri \o <<"#">>

\* The links follow the references' order: each comes from a later
\* reference than the one before.
RECURSIVE InReferenceOrder(_, _)
InReferenceOrder(ls, refs) ==
    IF ls = <<>> THEN TRUE
    ELSE IF refs = <<>> THEN FALSE
    ELSE \/ FromReference(Head(ls), Head(refs)) /\ InReferenceOrder(Tail(ls), Tail(refs))
         \/ InReferenceOrder(ls, Tail(refs))

\* C6: findLinks2 returns the links of the document's own matches first, in
\* document order, then those of the external references in the order given;
\* no link of an external reference precedes a link of the document.
C6_LocalThenExternalInOrder ==
    op = "findLinks2" =>
        LET local == {i \in 1..Len(ret) : IsLocalTarget(ret[i].target)}
        IN  /\ local = 1..Cardinality(LocalMatches)
            /\ \A i \in local : \A j \in local :
                  i < j => Before(ret[i].range.start, ret[j].range.start)
            /\ \A i \in local : \E n \in LocalMatches : ret[i] = LocalLinkOf(n)
            /\ InReferenceOrder(ExternalPart(ret), args.externalReferences)

\* Two links of the document followed by two different links of external
\* references.
C6_Witness ==
    /\ op = "findLinks2"
    /\ Len(ret) = 4
    /\ IsLocalTarget(ret[1].target) /\ IsLocalTarget(ret[2].target)
    /\ ~IsLocalTarget(ret[3].target) /\ ~IsLocalTarget(ret[4].target)
    /\ ret[3] # ret[4]

\* The string-valued "$ref" properties with a non-empty file part.
ExternalMatches == {n \in Nodes(doc) : IsStringRef(n) /\ FilePart(n.valueNode.value) # <<>>}

\* C7: findExternalReferences emits a record only for a string-valued "$ref"
\* property whose file part, the value before the first '#', is not empty,
\* and the record pairs the property with the file part resolved against
\* the document's uri.
C7_RecordsForNonEmptyFilePart ==
    op = "findExternalReferences" =>
        /\ Len(ret) = Cardinality(ExternalMatches)
        /\ \A i \in 1..Len(ret) :
              /\ ret[i].sourceNode \in ExternalMatches
              /\ ret[i].uri = resolveReference(args.documentContext,
                                               FilePart(ret[i].sourceNode.valueNode.value),
                                               document.uri)
        /\ \A i \in 1..Len(ret) : \A j \in 1..Len(ret) :
              i # j => ret[i].sourceNode # ret[j].sourceNode

\* One property with a file part and one with a fragment only: one record.
C7_Witness ==
    /\ op = "findExternalReferences"
    /\ args.documentContext = "resolving"
    /\ Len(ret) = 1
    /\ ret[1].sourceNode.valueNode.value = <<"o", "#", "/", "a">>
    /\ \E n \in Nodes(doc) : IsStringRef(n) /\ n.valueNode.value = <<"#", "/", "a">>

(***************************************************************************)
(* Pointer resolution: a tree, and pointers resolved against it.           *)
(***************************************************************************)

\* The most properties of an object and items of an array of the trees.
MaxProps == 2
MaxItems == 2
\* The longest token of a pointer, and the longest path taken whole from
\* the characters '#', '/', 'a'.
MaxTokLen == 2
MaxShortLen == 2

Leaves == {VNum, VStr(<<"s">>)}

PointerProps == {P(k, v) : k \in {<<"a">>, <<"0">>}, v \in Leaves \cup {NoValue}}

InnerValues ==
    Leaves \cup {VObj(ps) : ps \in SeqsUpTo(PointerProps, MaxProps)}
           \cup {VArr(is) : is \in SeqsUpTo(Leaves, MaxItems)}

\* No root, a scalar, an object or an array, and these once more below an
\* object's key, below a repeated key and as an array's second item.
PointerValues ==
    {NoValue} \cup InnerValues
        \cup {VObj(<<P(<<"a">>, v)>>) : v \in InnerValues}
        \cup {VObj(<<P(<<"a">>, w), P(<<"a">>, v)>>) :
                  w \in {NoValue, VArr(<<VStr(<<"s">>)>>)}, v \in InnerValues}
        \cup {VArr(<<VNum, v>>) : v \in InnerValues}

Tokens == Strings({"a", "0", "1"}, MaxTokLen)

\* "#", "#/t", "#/h/t", and every short string over '#', '/', 'a'.
Paths ==
    {<<"#", "/">> \o t : t \in Tokens}
        \cup {<<"#", "/">> \o h \o <<"/">> \o t : h \in Strings({"a", "0", "1"}, 1), t \in Tokens}
        \cup Strings({"#", "/", "a"}, MaxShortLen)

InitPointer ==
    /\ \E v \in PointerValues :
          /\ document = TextDocument(DocUri, v)
          /\ doc = JSONDocument(v)
    /\ Idle

FindTargetNode(path) ==
    /\ op = "none"
    /\ op' = "findTargetNode"
    /\ args' = [path |-> path]
    /\ ret' = findTargetNode(doc, path)
    /\ UNCHANGED <<document, doc, fetches, links, delivered>>

NextPointer == (\E path \in Paths : FindTargetNode(path)) \/ Return

SpecPointer == InitPointer /\ [][NextPointer]_vars

\* C5: findTargetNode returns the node reached by walking the pointer's
\* tokens from the root (object: the value of the first property with that
\* key; array: the item at that index), nothing when a step fails or the
\* string is neither "#" nor starts with "#/", and the root for "#".
C5_FindTargetNodeIsTheWalk ==
    op = "findTargetNode" =>
        /\ ret = Resolve(doc.root, args.path)
        /\ args.path = <<"#">> => ret = doc.root
        /\ (args.path # <<"#">> /\ ~HasPointerPrefix(args.path)) => ret = Null

\* A two-token pointer is resolved below a key that occurs twice.
C5_Witness ==
    /\ op = "findTargetNode"
    /\ Len(PointerTokens(args.path)) = 2
    /\ HasPointerPrefix(args.path)
    /\ doc.root # Null /\ doc.root.type = "object"
    /\ Len(doc.root.properties) = 2
    /\ doc.root.properties[1].keyNode.value = doc.root.properties[2].keyNode.value
    /\ doc.root.properties[2].valueNode # Null
    /\ doc.root.properties[2].valueNode.type = "array"
    /\ ret # Null
    /\ ret.offset < doc.root.properties[2].offset

\* The node the walk stands on before its m-th token.
NodeBefore(path, m) == WalkFrom(SubSeq(PointerTokens(path), 1, m - 1), 1, doc.root)

InRangeIndex(node, token) == \E k \in 0..(Len(node.items) - 1) : token = ToDecimal(k)

\* C9: a step from an array succeeds only for the canonical decimal form of
\* an index within the items, and then reaches that item; "01" matches no
\* item and an index out of range gives nothing.
C9_ArrayStepNeedsCanonicalIndex ==
    (op = "findTargetNode" /\ HasPointerPrefix(args.path)) =>
        LET tokens == PointerTokens(args.path)
            n == Len(tokens)
        IN  /\ \A m \in 1..n :
                  LET node == NodeBefore(args.path, m)
                  IN  (node # Null /\ node.type = "array" /\ ret # Null)
                          => InRangeIndex(node, tokens[m])
            /\ LET node == NodeBefore(args.path, n)
               IN  (node # Null /\ node.type = "array") =>
                      /\ \A k \in 0..(Len(node.items) - 1) :
                            tokens[n] = ToDecimal(k) => ret = node.items[k + 1]
                      /\ tokens[n] \in {<<"0", "1">>, <<"0", "0">>} => ret = Null

\* Item 1 of an array of two was found, below the root.
C9_Witness ==
    /\ op = "findTargetNode"
    /\ HasPointerPrefix(args.path)
    /\ Len(PointerTokens(args.path)) = 2
    /\ PointerTokens(args.path)[2] = <<"1">>
    /\ NodeBefore(args.path, 2) # Null
    /\ NodeBefore(args.path, 2).type = "array"
    /\ Len(NodeBefore(args.path, 2).items) = 2
    /\ ret = NodeBefore(args.path, 2).items[2]

(***************************************************************************)
(* Token decoding: strings with escapes, and objects whose keys hold '~'   *)
(* and '/'.                                                                *)
(***************************************************************************)

\* The longest string decoded.
MaxEscLen == 4

EscapedStrings == Strings({"~", "0", "1", "a"}, MaxEscLen)

EscapeKeys == {<<"a", "~", "1">>, <<"a", "/">>, <<"~">>, <<"/">>}

EscapeValues ==
    {VObj(<<P(k, VNum)>>) : k \in EscapeKeys}
        \cup {VObj(<<P(k, VNum), P(l, VNum)>>) : k \in EscapeKeys, l \in EscapeKeys}

InitUnescape ==
    /\ \E v \in EscapeValues :
          /\ document = TextDocument(DocUri, v)
          /\ doc = JSONDocument(v)
    /\ Idle

Unescape(str) ==
    /\ op = "none"
    /\ op' = "unescape"
    /\ args' = [str |-> str]
    /\ ret' = unescape(str)
    /\ UNCHANGED <<document, doc, fetches, links, delivered>>

NextUnescape ==
    \/ \E str \in EscapedStrings : Unescape(str)
    \/ \E str \in EscapedStrings : FindTargetNode(<<"#", "/">> \o str)
    \/ Return

SpecUnescape == InitUnescape /\ [][NextUnescape]_vars

\* C8: decoding a token ("~1" to "/", then "~0" to "~") gives what one pass
\* from the left gives that decodes each escape once; the pointer "#/a~01"
\* reaches the value of the key "a~1" and never that of the key "a/".
C8_UnescapeIsOnePass ==
    /\ op = "unescape" => ret = DecodeOnce(args.str)
    /\ op = "findTargetNode" =>
          /\ ret = Step(doc.root, DecodeOnce(SubSeq(args.path, 3, Len(args.path))))
          /\ args.path = <<"#", "/", "a", "~", "0", "1">> =>
                /\ ret # Null <=> \E i \in 1..Len(doc.root.properties) :
                                     doc.root.properties[i].keyNode.value = <<"a", "~", "1">>
                /\ \A i \in 1..Len(doc.root.properties) :
                      doc.root.properties[i].keyNode.value = <<"a", "/">>
                          => ret # doc.root.properties[i].valueNode

\* "#/a~01" was resolved in an object with the keys "a/" and "a~1", in
\* this order, and reached the second value.
C8_Witness ==
    /\ op = "findTargetNode"
    /\ args.path = <<"#", "/", "a", "~", "0", "1">>
    /\ Len(doc.root.properties) = 2
    /\ doc.root.properties[1].keyNode.value = <<"a", "/">>
    /\ doc.root.properties[2].keyNode.value = <<"a", "~", "1">>
    /\ ret = doc.root.properties[2].valueNode

(***************************************************************************)
(* The cross-document link finder in on-demand resolution mode: the        *)
(* references with a file part are fetched, the fetches settle in any      *)
(* order, and the links are handed back after the last one.                *)
(***************************************************************************)

\* What a fetch reports: no error, or one.
FetchErrors == {<<>>, <<"e">>}

\* The link of a fetched reference: a range and no target.
recognizedLink(d, node) == [target |-> Null, range |-> createRange(d, node.valueNode)]

\* The fetch one visited node triggers.
visitFetch(d, documentContext, node) ==
    IF isRefProperty(node) /\ split(node.valueNode.value, "#")[1] # <<>>
    THEN <<[sourceNode |-> node,
            uri |-> resolveReference(documentContext,
                                     split(node.valueNode.value, "#")[1], d.uri),
            status |-> "pending"]>>
    ELSE <<>>

\* The link one visited node without a file part adds at once.
visitLocal(d, jd, node) ==
    IF isRefProperty(node) /\ split(node.valueNode.value, "#")[1] = <<>>
    THEN visitLink(d, jd, node)
    ELSE <<>>

RECURSIVE visitFetches(_, _, _), visitLocals(_, _, _)
visitFetches(d, documentContext, nodes) ==
    IF nodes = <<>> THEN <<>>
    ELSE visitFetch(d, documentContext, Head(nodes))
         \o visitFetches(d, documentContext, Tail(nodes))

visitLocals(d, jd, nodes) ==
    IF nodes = <<>> THEN <<>>
    ELSE visitLocal(d, jd, Head(nodes)) \o visitLocals(d, jd, Tail(nodes))

anySettled(fs) == fs = <<>> \/ \E i \in 1..Len(fs) : fs[i].status # "pending"

\* The join over the fetches: none is outstanding.
allSettled(fs) == \A i \in 1..Len(fs) : fs[i].status # "pending"

\* The call walks the tree: local pointers give their links, file parts
\* their fetches.
StartOnDemand ==
    \E documentContext \in DocumentContexts :
        /\ op = "none"
        /\ op' = "findLinksOnDemand"
        /\ args' = [documentContext |-> documentContext]
        /\ links' = visitLocals(document, doc, visit(doc.root))
        /\ fetches' = visitFetches(document, documentContext, visit(doc.root))
        /\ delivered' = FALSE
        /\ UNCHANGED <<document, doc, ret>>

\* One fetch completes; without errors its reference gets a link.
Settle ==
    \E i \in 1..Len(fetches) : \E errors \in FetchErrors :
        /\ op = "findLinksOnDemand"
        /\ fetches[i].status = "pending"
        /\ fetches' = [fetches EXCEPT ![i].status =
                           IF errors = <<>> THEN "loaded" ELSE "failed"]
        /\ links' = IF errors = <<>>
                    THEN Append(links, recognizedLink(document, fetches[i].sourceNode))
                    ELSE links
        /\ UNCHANGED <<document, doc, op, args, ret, delivered>>

\* The result is handed back.
Deliver ==
    /\ op = "findLinksOnDemand"
    /\ ~delivered
    /\ allSettled(fetches)
    /\ delivered' = TRUE
    /\ ret' = links
    /\ UNCHANGED <<document, doc, op, args, fetches, links>>

ReturnOnDemand ==
    /\ op = "findLinksOnDemand"
    /\ delivered
    /\ op' = "none"
    /\ args' = Null
    /\ ret' = Null
    /\ fetches' = <<>>
    /\ links' = <<>>
    /\ delivered' = FALSE
    /\ UNCHANGED <<document, doc>>

NextOnDemand == StartOnDemand \/ Settle \/ Deliver \/ ReturnOnDemand

SpecOnDemand == Init /\ [][NextOnDemand]_vars

\* C10: in on-demand mode the final link list is available only after
\* every fetch the call triggered has settled, with or without errors;
\* it is never handed back while a fetch is outstanding.
C10_ResultAfterAllFetchesSettled ==
    delivered => /\ \A i \in 1..Len(fetches) : fetches[i].status \in {"loaded", "failed"}
                 /\ ret = links

\* The result was handed back after two fetches settled, one with an error.
C10_Witness ==
    /\ delivered
    /\ Len(fetches) = 2
    /\ fetches[1].status = "failed"
    /\ fetches[2].status = "loaded"
    /\ Len(ret) = 1

====
